---- MODULE Spec2Model ----
(***************************************************************************)
(* PyChain ledger (src/pychain.py): Record, Block.hash_block,              *)
(* PyChain.proof_of_work / add_block / is_valid, and the Streamlit script  *)
(* that drives them (setup, "Add Block", difficulty slider, "Validate      *)
(* Chain").                                                                *)
(*                                                                         *)
(* Python values: a str is the sequence of its code points (all ASCII, so *)
(* s.encode() has the same numbers as bytes), an int is an integer.  Where *)
(* a field holds values of more than one type (Record.amount, Block.record, *)
(* Block.creator_id) the value carries its type as the name of its only    *)
(* field:                                                                  *)
(* [int |-> 10], [str |-> Text(<<"1","0">>)],                              *)
(* [Record |-> [sender |-> .., receiver |-> .., amount |-> ..]].           *)
(*                                                                         *)
(* hashlib.sha256 is library code.  It is modelled by sha256, update and   *)
(* hexdigest: a fixed deterministic function from the bytes fed to it to   *)
(* HashLen hexadecimal characters, whose leading characters are '0' far    *)
(* more often than SHA-256's, so that the proof-of-work search is short    *)
(* enough to be explored step by step.                                     *)
(***************************************************************************)
EXTENDS Integers, Sequences, FiniteSets, TLC

\* ------------------------------------------------------------- bounds
MaxBlocks == 2        \* blocks appended after genesis
MaxDifficulty == 2    \* largest difficulty the slider offers in the model
MaxNonce == 12        \* cap of the nonce counter of a search that cannot win
MaxClock == 1         \* clock readings 0..MaxClock (seconds)
MaxTampers == 1       \* manual field overwrites per behaviour

\* --------------------------------------------------- program constants
DefaultDifficulty == 4    \* PyChain.difficulty default
SliderMin == 1            \* st.sidebar.slider('Block Difficulty', 1, 7, 2)
SliderDefault == 2
seed == 42                \* creator_id the handler gives every block
HashLen == 64             \* length of sha256().hexdigest()

\* ------------------------------------------------------------- text
\* ord() of the characters the model's texts are written with
Ord ==
  (" " :> 32) @@ ("'" :> 39) @@ ("(" :> 40) @@ (")" :> 41) @@ ("," :> 44) @@
  ("-" :> 45) @@ ("0" :> 48) @@ ("1" :> 49) @@ ("9" :> 57) @@ (":" :> 58) @@
  ("=" :> 61) @@ ("A" :> 65) @@ ("B" :> 66) @@ ("G" :> 71) @@ ("R" :> 82) @@
  ("a" :> 97) @@ ("c" :> 99) @@ ("d" :> 100) @@ ("e" :> 101) @@
  ("i" :> 105) @@ ("m" :> 109) @@ ("n" :> 110) @@ ("o" :> 111) @@
  ("r" :> 114) @@ ("s" :> 115) @@ ("t" :> 116) @@ ("u" :> 117) @@
  ("v" :> 118)

\* the str written as a sequence of characters
Text(chars) == [i \in 1..Len(chars) |-> Ord[chars[i]]]

\* the characters '0'..'9' and '0'..'9','a'..'f' of a digit
DecDigit(n) == 48 + n
HexDigit(x) == IF x < 10 THEN 48 + x ELSE 87 + x

RECURSIVE NatStr(_)
NatStr(n) == IF n < 10 THEN <<DecDigit(n)>>
             ELSE NatStr(n \div 10) \o <<DecDigit(n % 10)>>

\* str(n) of an int
IntStr(n) == IF n < 0 THEN Text(<<"-">>) \o NatStr(-n) ELSE NatStr(n)

\* repr(s) of a str that holds no quote: the text in single quotes
StrRepr(s) == <<39>> \o s \o <<39>>

\* repr(v) of the amount: an int or a str
Repr(v) == IF "int" \in DOMAIN v THEN IntStr(v.int) ELSE StrRepr(v.str)

RecordOpen ==
  Text(<<"R", "e", "c", "o", "r", "d", "(", "s", "e", "n", "d", "e", "r", "=">>)
RecordMid1 == Text(<<",", " ", "r", "e", "c", "e", "i", "v", "e", "r", "=">>)
RecordMid2 == Text(<<",", " ", "a", "m", "o", "u", "n", "t", "=">>)
RecordClose == Text(<<")">>)

\* str(Record(...)), the dataclass repr
RecordStr(r) ==
  RecordOpen \o StrRepr(r.sender) \o RecordMid1 \o StrRepr(r.receiver)
  \o RecordMid2 \o Repr(r.amount) \o RecordClose

\* str(v): a str is its own text, an int its decimal text, a Record its
\* dataclass repr
Str(v) ==
  IF "str" \in DOMAIN v THEN v.str
  ELSE IF "int" \in DOMAIN v THEN IntStr(v.int)
  ELSE RecordStr(v.Record)

TwoDigits(n) == <<DecDigit(n \div 10), DecDigit(n % 10)>>

\* datetime.strftime('%H:%M:%S') of a clock reading in seconds
strftime(t) ==
  TwoDigits((t \div 3600) % 24) \o <<58>> \o TwoDigits((t \div 60) % 60)
  \o <<58>> \o TwoDigits(t % 60)

\* s.encode(): one byte for each ASCII character, its code point
encode(s) == s

\* ------------------------------------------------------------- digest
Mix(acc, byte, mult, m) == (acc * mult + byte) % m

\* one byte absorbed by both accumulators of the hash object
Absorb[sha \in Nat \X Nat, byte \in Nat] ==
  <<Mix(sha[1], byte, 33, 16777213), Mix(sha[2], byte, 127, 16769023)>>

\* hashlib.sha256(): the state of a fresh hash object
sha256 == <<5381, 7919>>

\* sha.update(bytes): the bytes absorbed in order; after[k] is the state
\* after the first k bytes (update, Absorb and hexdigest are functions, so
\* that their arguments are values, computed once)
update[sha \in Nat \X Nat, bytes \in Seq(Nat)] ==
  LET after[k \in 0..Len(bytes)] ==
        IF k = 0 THEN sha ELSE Absorb[after[k - 1], bytes[k]]
  IN  after[Len(bytes)]

RECURSIVE HexOf(_, _)
HexOf(x, n) == IF n = 0 THEN <<>>
               ELSE HexOf(x \div 16, n - 1) \o <<HexDigit(x % 16)>>

\* the i-th leading character of the digest: '0' three times out of four
WorkDigit(g, k, i) ==
  LET y == (g + i) % 46337
      x == (((y * y) % 46337) + (k * i)) % 46337
  IN  IF x % 4 # 0 THEN 48 ELSE HexDigit((x \div 4) % 16)

\* sha.hexdigest(): HashLen hexadecimal characters
hexdigest[sha \in Nat \X Nat] ==
  [i \in 1..(HashLen - 12) |-> WorkDigit(sha[1] % 46337, sha[2] % 46337, i)]
  \o HexOf(sha[1], 6) \o HexOf(sha[2], 6)

\* the bytes hash_block feeds to the hash object, one update after the other
HashedText(b) ==
  encode(Str(b.record)) \o encode(Str(b.creator_id)) \o encode(b.timestamp)
  \o encode(b.prev_hash) \o encode(IntStr(b.nonce))

\* a hash_block that leaves the nonce out of the hashed text
hash_block_no_nonce(b) ==
  hexdigest[
    update[update[update[update[sha256,
      encode(Str(b.record))], encode(Str(b.creator_id))],
      encode(b.timestamp)], encode(b.prev_hash)]]

\* a hash_block that leaves creator_id out of the hashed text
hash_block_no_creator(b) ==
  hexdigest[
    update[update[update[update[sha256,
      encode(Str(b.record))],
      encode(b.timestamp)], encode(b.prev_hash)], encode(IntStr(b.nonce))]]

\* Block.hash_block: record, creator_id, timestamp, prev_hash and nonce are
\* fed to the hash object in this order
hash_block(b) ==
  hexdigest[
    update[update[update[update[update[sha256,
      encode(Str(b.record))], encode(Str(b.creator_id))],
      encode(b.timestamp)], encode(b.prev_hash)], encode(IntStr(b.nonce))]]

\* ------------------------------------------------------------- state
VARIABLES
  chain,            \* pychain.chain
  difficulty,       \* pychain.difficulty
  slider,           \* value of the 'Block Difficulty' widget
  now,              \* the clock, datetime.utcnow(), in seconds
  default_ts,       \* Block.timestamp's default, set when the class is defined
  pc,               \* "first", "idle", "pow" (in the mining loop), "ret"
  caller,           \* who called proof_of_work: "handler", "add_block", "direct"
  block,            \* proof_of_work's parameter, the candidate block
  calculated_hash,  \* proof_of_work's local
  num_of_zeros,     \* proof_of_work's local
  valid_result,     \* "True"/"False": is_valid() ended last and returned it
  tampers,          \* number of manual field overwrites so far
  adds,             \* number of add_block calls so far
  turns,            \* parity of the loop turns taken with the nonce at its cap
  nonce0            \* the block's nonce when proof_of_work was called

vars == <<chain, difficulty, slider, now, default_ts, pc, caller, block,
          calculated_hash, num_of_zeros, valid_result, tampers, adds,
          turns, nonce0>>

NoBlock == [none |-> TRUE]

\* Block(record, creator_id, prev_hash, timestamp, nonce)
Block(record, creator_id, prev_hash, timestamp, nonce) ==
  [record |-> record, creator_id |-> creator_id, prev_hash |-> prev_hash,
   timestamp |-> timestamp, nonce |-> nonce]

\* Record(sender, receiver, amount)
Record(sender, receiver, amount) ==
  [Record |-> [sender |-> sender, receiver |-> receiver, amount |-> amount]]

\* Block('Genesis', 0): prev_hash '0', the class's default timestamp, nonce 0
Genesis(ts) ==
  Block([str |-> Text(<<"G", "e", "n", "e", "s", "i", "s">>)], [int |-> 0],
        Text(<<"0">>), ts, 0)

\* '0' * n: empty when n <= 0
Zeros(n) == [i \in 1..n |-> 48]

\* s.startswith(prefix)
startswith(s, prefix) ==
  /\ Len(prefix) <= Len(s)
  /\ \A i \in 1..Len(prefix) : s[i] = prefix[i]

Last(s) == s[Len(s)]

\* a loop that compares each block's prev_hash with the block's own hash
RECURSIVE is_valid_loop_self(_, _, _)
is_valid_loop_self(ch, i, block_hash) ==
  IF i > Len(ch) THEN [result |-> TRUE, compared |-> Len(ch) - 1]
  ELSE IF hash_block(ch[i]) # ch[i].prev_hash
       THEN [result |-> FALSE, compared |-> i - 1]
       ELSE is_valid_loop_self(ch, i + 1, hash_block(ch[i]))

\* a loop with no early return: the answer is that of the last comparison
RECURSIVE is_valid_loop_last(_, _, _)
is_valid_loop_last(ch, i, block_hash) ==
  IF i > Len(ch) THEN [result |-> TRUE, compared |-> Len(ch) - 1]
  ELSE IF i = Len(ch)
       THEN [result |-> block_hash = ch[i].prev_hash, compared |-> i - 1]
       ELSE is_valid_loop_last(ch, i + 1, hash_block(ch[i]))

\* a loop that also asks each block's hash for the prefix now in force
RECURSIVE is_valid_loop_pow(_, _, _)
is_valid_loop_pow(ch, i, block_hash) ==
  IF i > Len(ch) THEN [result |-> TRUE, compared |-> Len(ch) - 1]
  ELSE IF \/ block_hash # ch[i].prev_hash
          \/ ~startswith(hash_block(ch[i]), Zeros(difficulty))
       THEN [result |-> FALSE, compared |-> i - 1]
       ELSE is_valid_loop_pow(ch, i + 1, hash_block(ch[i]))

\* PyChain.is_valid: the loop over chain[1:], block_hash carried along; the
\* result, and the number of blocks whose prev_hash was compared
RECURSIVE is_valid_loop(_, _, _)
is_valid_loop(ch, i, block_hash) ==
  IF i > Len(ch) THEN [result |-> TRUE, compared |-> Len(ch) - 1]
  ELSE IF block_hash # ch[i].prev_hash
       THEN [result |-> FALSE, compared |-> i - 1]
       ELSE is_valid_loop(ch, i + 1, hash_block(ch[i]))

\* a loop over self.chain instead of self.chain[1:]
is_valid_run_all(ch) == is_valid_loop(ch, 1, hash_block(ch[1]))

\* an is_valid() that also asks the last block's hash for a leading '0'
is_valid_run_tail(ch) ==
  LET r == is_valid_loop(ch, 2, hash_block(ch[1]))
  IN  [r EXCEPT !.result =
         @ /\ (Len(ch) > 1 => startswith(hash_block(Last(ch)), Zeros(1)))]

\* block_hash = self.chain[0].hash_block(), then the loop over chain[1:]
is_valid_run(ch) == is_valid_loop(ch, 2, hash_block(ch[1]))

is_valid(ch) == is_valid_run(ch).result

\* str(True), str(False)
BoolStr(b) == IF b THEN "True" ELSE "False"

\* ------------------------------------------------------------- inputs
Senders == {Text(<<"A">>)}
Receivers == {Text(<<"B">>)}
Texts == {Text(<<"A">>), Text(<<"B">>)}
\* st.text_input('Amount') returns a str, which the handler stores as it is
AmountTexts == {[str |-> Text(<<"1", "0">>)], [str |-> Text(<<"9", "9">>)]}
\* amounts of callers that pass numbers
AmountNumbers == {[int |-> 10], [int |-> 99]}
\* the slider's range in the model, standing for 1..7
SliderValues == SliderMin..MaxDifficulty
\* difficulties a direct caller may assign: the core accepts any int
ApiDifficulties == {-1, 0} \cup SliderValues \cup {HashLen + 1}

\* ------------------------------------------------------------- setup
\* the state after "pychain = setup()" of the script's first run: the class
\* Block was defined at the clock's first reading, the cached PyChain holds
\* the genesis block and the default difficulty
Init ==
  /\ now = 0
  /\ default_ts = strftime(0)
  /\ chain = <<Genesis(strftime(0))>>
  /\ difficulty = DefaultDifficulty
  /\ slider = SliderDefault
  /\ pc = "first"
  /\ caller = "none"
  /\ block = NoBlock
  /\ calculated_hash = <<>>
  /\ num_of_zeros = <<>>
  /\ valid_result = "none"
  /\ tampers = 0
  /\ adds = 0
  /\ turns = 0
  /\ nonce0 = 0

\* the clock advances
Tick ==
  /\ now < MaxClock
  /\ now' = now + 1
  /\ UNCHANGED <<chain, difficulty, slider, default_ts, pc, caller, block,
                 calculated_hash, num_of_zeros, valid_result, tampers, adds, turns, nonce0>>

\* ------------------------------------------------------ proof_of_work
\* proof_of_work asking for one zero too few
pow_enter_short(b, who) ==
  /\ block' = b
  /\ calculated_hash' = hash_block(b)
  /\ num_of_zeros' = Zeros(difficulty - 1)
  /\ caller' = who
  /\ pc' = "pow"
  /\ nonce0' = b.nonce

\* proof_of_work with the difficulty clamped to at least 1
pow_enter_clamped(b, who) ==
  /\ block' = b
  /\ calculated_hash' = hash_block(b)
  /\ num_of_zeros' = Zeros(IF difficulty < 1 THEN 1 ELSE difficulty)
  /\ caller' = who
  /\ pc' = "pow"
  /\ nonce0' = b.nonce

\* entry of proof_of_work(b): calculated_hash and num_of_zeros are set
pow_enter(b, who) ==
  /\ block' = b
  /\ calculated_hash' = hash_block(b)
  /\ num_of_zeros' = Zeros(difficulty)
  /\ caller' = who
  /\ pc' = "pow"
  /\ nonce0' = b.nonce

\* a loop that increments the nonce and never recomputes the hash
PowLoop_no_rehash ==
  /\ pc = "pow"
  /\ ~startswith(calculated_hash, num_of_zeros)
  /\ IF block.nonce < MaxNonce
     THEN /\ block' = [block EXCEPT !.nonce = @ + 1]
          /\ turns' = turns
     ELSE /\ UNCHANGED block
          /\ turns' = 1 - turns
  /\ UNCHANGED <<chain, difficulty, slider, now, default_ts, pc, caller,
                 calculated_hash, num_of_zeros, valid_result, tampers, adds, nonce0>>

\* a loop that also stores the hash it tried as the block's prev_hash
PowLoop_relink ==
  /\ pc = "pow"
  /\ ~startswith(calculated_hash, num_of_zeros)
  /\ IF block.nonce < MaxNonce
     THEN /\ block' = [block EXCEPT !.nonce = @ + 1,
                                   !.prev_hash = calculated_hash]
          /\ calculated_hash' =
               hash_block([block EXCEPT !.nonce = @ + 1,
                                        !.prev_hash = calculated_hash])
          /\ turns' = turns
     ELSE /\ UNCHANGED <<block, calculated_hash>>
          /\ turns' = 1 - turns
  /\ UNCHANGED <<chain, difficulty, slider, now, default_ts, pc, caller,
                 num_of_zeros, valid_result, tampers, adds, nonce0>>

\* a loop that tries every second nonce only
PowLoop_skip ==
  /\ pc = "pow"
  /\ ~startswith(calculated_hash, num_of_zeros)
  /\ IF block.nonce < MaxNonce - 1
     THEN /\ block' = [block EXCEPT !.nonce = @ + 2]
          /\ calculated_hash' = hash_block([block EXCEPT !.nonce = @ + 2])
          /\ turns' = turns
     ELSE /\ UNCHANGED <<block, calculated_hash>>
          /\ turns' = 1 - turns
  /\ UNCHANGED <<chain, difficulty, slider, now, default_ts, pc, caller,
                 num_of_zeros, valid_result, tampers, adds, nonce0>>

\* one turn of the while loop: block.nonce += 1, the hash recomputed. The
\* nonces from MaxNonce on are not told apart: a turn taken there leaves the
\* block as it is and is counted in turns
PowLoop ==
  /\ pc = "pow"
  /\ ~startswith(calculated_hash, num_of_zeros)
  /\ IF block.nonce < MaxNonce
     THEN /\ block' = [block EXCEPT !.nonce = @ + 1]
          /\ calculated_hash' = hash_block([block EXCEPT !.nonce = @ + 1])
          /\ turns' = turns
     ELSE /\ UNCHANGED <<block, calculated_hash>>
          /\ turns' = 1 - turns
  /\ UNCHANGED <<chain, difficulty, slider, now, default_ts, pc, caller,
                 num_of_zeros, valid_result, tampers, adds, nonce0>>

\* the loop ends, proof_of_work returns block
PowReturn ==
  /\ pc = "pow"
  /\ startswith(calculated_hash, num_of_zeros)
  /\ pc' = "ret"
  /\ UNCHANGED <<chain, difficulty, slider, now, default_ts, caller, block,
                 calculated_hash, num_of_zeros, valid_result, tampers, adds, turns, nonce0>>

\* the frame of proof_of_work is gone
pow_leave ==
  /\ block' = NoBlock
  /\ calculated_hash' = <<>>
  /\ num_of_zeros' = <<>>
  /\ caller' = "none"
  /\ pc' = "idle"
  /\ nonce0' = 0

\* proof_of_work was called on its own: the caller has the block back
PowDone ==
  /\ pc = "ret"
  /\ caller = "direct"
  /\ pow_leave
  /\ UNCHANGED <<chain, difficulty, slider, now, default_ts, valid_result,
                 tampers, adds, turns>>

\* ---------------------------------------------------------- add_block
\* self.chain = [block] + self.chain
add_block_prepend ==
  /\ pc = "ret"
  /\ chain' = <<block>> \o chain
  /\ pow_leave

\* an add_block that drops a mined block whose prev_hash is not the hash of
\* the tail
add_block_checked ==
  /\ pc = "ret"
  /\ chain' = IF block.prev_hash = hash_block(Last(chain))
              THEN Append(chain, block) ELSE chain
  /\ pow_leave

\* self.chain += [block], with the block proof_of_work returned
add_block_append ==
  /\ pc = "ret"
  /\ chain' = Append(chain, block)
  /\ pow_leave

\* add_block, called directly, ends
AddBlockDone ==
  /\ caller = "add_block"
  /\ add_block_append
  /\ UNCHANGED <<difficulty, slider, now, default_ts, valid_result, tampers, adds, turns>>

\* ------------------------------------------------- the Streamlit script
\* the first run ends: no button can have been pressed, the slider holds
\* its default
FirstRun ==
  /\ pc = "first"
  /\ difficulty' = slider
  /\ pc' = "idle"
  /\ UNCHANGED <<chain, slider, now, default_ts, caller, block,
                 calculated_hash, num_of_zeros, valid_result, tampers, adds, turns, nonce0>>

\* a rerun with no button pressed (the slider moved to s, or a text input
\* edited): the classes are defined again, pychain.difficulty = difficulty
Rerun(s) ==
  /\ pc = "idle"
  /\ default_ts' = strftime(now)
  /\ slider' = s
  /\ difficulty' = s
  /\ valid_result' = "none"
  /\ UNCHANGED <<chain, now, pc, caller, block, calculated_hash,
                 num_of_zeros, tampers, adds, turns, nonce0>>

\* a handler that links every block to pychain.chain[0]
new_block_first(sender_data, receiver_data, amount_data, timestamp) ==
  Block(Record(sender_data, receiver_data, amount_data), [int |-> seed],
        hash_block(chain[1]), timestamp, 0)

\* the handler's new_block: prev_hash is the live hash of the chain's last
\* block, the timestamp the class's default
new_block(sender_data, receiver_data, amount_data, timestamp) ==
  Block(Record(sender_data, receiver_data, amount_data), [int |-> seed],
        hash_block(Last(chain)), timestamp, 0)

\* 'Add Block' pressed: the rerun reaches pychain.add_block(new_block)
ClickAdd(sender_data, receiver_data, amount_data) ==
  /\ pc = "idle"
  /\ Len(chain) <= MaxBlocks
  /\ default_ts' = strftime(now)
  /\ pow_enter(new_block(sender_data, receiver_data, amount_data,
                         strftime(now)), "handler")
  /\ valid_result' = "none"
  /\ UNCHANGED <<chain, difficulty, slider, now, tampers>>
  /\ adds' = adds + 1
  /\ turns' = turns

\* add_block returned to the handler; the run goes on to the slider
HandlerDone ==
  /\ caller = "handler"
  /\ add_block_append
  /\ difficulty' = slider
  /\ UNCHANGED <<slider, now, default_ts, valid_result, tampers, adds, turns>>

\* 'Validate Chain' pressed
ClickValidate ==
  /\ pc = "idle"
  /\ default_ts' = strftime(now)
  /\ difficulty' = slider
  /\ valid_result' = BoolStr(is_valid(chain))
  /\ UNCHANGED <<chain, slider, now, pc, caller, block, calculated_hash,
                 num_of_zeros, tampers, adds, turns, nonce0>>

\* ------------------------------------------- the PyChain object used directly
\* a program that imports the classes and builds the chain as setup() does:
\* the difficulty is the default until it is assigned
ApiInit ==
  /\ now = 0
  /\ default_ts = strftime(0)
  /\ chain = <<Genesis(strftime(0))>>
  /\ difficulty = DefaultDifficulty
  /\ slider = SliderDefault
  /\ pc = "idle"
  /\ caller = "none"
  /\ block = NoBlock
  /\ calculated_hash = <<>>
  /\ num_of_zeros = <<>>
  /\ valid_result = "none"
  /\ tampers = 0
  /\ adds = 0
  /\ turns = 0
  /\ nonce0 = 0

\* a difficulty setter that also resets the nonce of every block of the chain
SetDifficulty_remine(d) ==
  /\ pc = "idle"
  /\ difficulty' = d
  /\ chain' = [i \in 1..Len(chain) |-> [chain[i] EXCEPT !.nonce = 0]]
  /\ valid_result' = "none"
  /\ UNCHANGED <<slider, now, default_ts, pc, caller, block,
                 calculated_hash, num_of_zeros, tampers, adds, turns, nonce0>>

\* pychain.difficulty = d
SetDifficulty(d) ==
  /\ pc = "idle"
  /\ difficulty' = d
  /\ valid_result' = "none"
  /\ UNCHANGED <<chain, slider, now, default_ts, pc, caller, block,
                 calculated_hash, num_of_zeros, tampers, adds, turns, nonce0>>

\* the candidate of a direct caller: Block(Record(..), creator_id, prev_hash)
\* with the class's default timestamp; prev_hash is the live hash of the
\* tail when linked, else the default '0'
Candidate(amount, creator_id, linked, nonce) ==
  Block(Record(Text(<<"A">>), Text(<<"B">>), amount), [int |-> creator_id],
        IF linked THEN hash_block(Last(chain)) ELSE Text(<<"0">>),
        default_ts, nonce)

\* pychain.add_block(Candidate(..))
CallAddBlock(amount, creator_id, linked, nonce) ==
  /\ pc = "idle"
  /\ Len(chain) <= MaxBlocks
  /\ pow_enter(Candidate(amount, creator_id, linked, nonce), "add_block")
  /\ valid_result' = "none"
  /\ UNCHANGED <<chain, difficulty, slider, now, default_ts, tampers>>
  /\ adds' = adds + 1
  /\ turns' = turns

\* pychain.proof_of_work(Candidate(..)) on a block that is not in the chain
CallProofOfWork(amount, creator_id, linked, nonce) ==
  /\ pc = "idle"
  /\ pow_enter(Candidate(amount, creator_id, linked, nonce), "direct")
  /\ valid_result' = "none"
  /\ UNCHANGED <<chain, difficulty, slider, now, default_ts, tampers, adds, turns>>

\* an is_valid() that drops the last block of a chain it rejects
CallIsValid_truncate ==
  /\ pc = "idle"
  /\ valid_result' = BoolStr(is_valid(chain))
  /\ chain' = IF is_valid(chain) THEN chain
              ELSE SubSeq(chain, 1, Len(chain) - 1)
  /\ UNCHANGED <<difficulty, slider, now, default_ts, pc, caller,
                 block, calculated_hash, num_of_zeros, tampers, adds, turns, nonce0>>

\* pychain.is_valid()
CallIsValid ==
  /\ pc = "idle"
  /\ valid_result' = BoolStr(is_valid(chain))
  /\ UNCHANGED <<chain, difficulty, slider, now, default_ts, pc, caller,
                 block, calculated_hash, num_of_zeros, tampers, adds, turns, nonce0>>

\* ------------------------------------------------- manual overwrites
Fields == {"sender", "receiver", "amount", "creator_id", "timestamp",
           "prev_hash", "nonce"}

RecordFields == {"sender", "receiver", "amount"}

\* the values an overwrite may store in a field
FieldValues(f) ==
  CASE f = "sender" -> Texts
    [] f = "receiver" -> Texts
    [] f = "amount" -> AmountNumbers \cup AmountTexts
    [] f = "creator_id" -> {[int |-> 0], [int |-> 1], [str |-> Text(<<"1">>)]}
    [] f = "timestamp" -> {strftime(0), strftime(1)}
    [] f = "prev_hash" -> {Text(<<"0">>), Text(<<"1">>)}
    [] f = "nonce" -> {0, 1}

\* b.f = v, or b.record.f = v for a field of the Record
SetField(b, f, v) ==
  CASE f = "sender" -> [b EXCEPT !.record.Record.sender = v]
    [] f = "receiver" -> [b EXCEPT !.record.Record.receiver = v]
    [] f = "amount" -> [b EXCEPT !.record.Record.amount = v]
    [] f = "creator_id" -> [b EXCEPT !.creator_id = v]
    [] f = "timestamp" -> [b EXCEPT !.timestamp = v]
    [] f = "prev_hash" -> [b EXCEPT !.prev_hash = v]
    [] f = "nonce" -> [b EXCEPT !.nonce = v]

GetField(b, f) ==
  CASE f = "sender" -> b.record.Record.sender
    [] f = "receiver" -> b.record.Record.receiver
    [] f = "amount" -> b.record.Record.amount
    [] f = "creator_id" -> b.creator_id
    [] f = "timestamp" -> b.timestamp
    [] f = "prev_hash" -> b.prev_hash
    [] f = "nonce" -> b.nonce

\* pychain.chain[i].f = v from outside the class, v a different value; the
\* genesis record is a str and has no fields
Tamper(i, f, v) ==
  /\ pc = "idle"
  /\ tampers < MaxTampers
  /\ i \in 1..Len(chain)
  /\ f \in RecordFields => "Record" \in DOMAIN chain[i].record
  /\ GetField(chain[i], f) # v
  /\ chain' = [chain EXCEPT ![i] = SetField(@, f, v)]
  /\ tampers' = tampers + 1
  /\ valid_result' = "none"
  /\ UNCHANGED <<difficulty, slider, now, default_ts, pc, caller, block,
                 calculated_hash, num_of_zeros, adds, turns, nonce0>>

\* ------------------------------------------------------ specifications
\* the application: the script's runs
Next ==
  \/ FirstRun
  \/ \E s \in SliderValues : Rerun(s)
  \/ \E sd \in Senders, rd \in Receivers, ad \in AmountTexts : ClickAdd(sd, rd, ad)
  \/ PowLoop
  \/ PowReturn
  \/ HandlerDone
  \/ ClickValidate
  \/ Tick

Spec == Init /\ [][Next]_vars

\* the PyChain object used directly, with any difficulty and any candidate
ApiNext ==
  \/ \E d \in ApiDifficulties : SetDifficulty(d)
  \/ \E linked \in BOOLEAN : CallAddBlock([int |-> 10], 1, linked, 0)
  \/ \E n \in {0, 1} : CallProofOfWork([int |-> 10], 1, TRUE, n)
  \/ PowLoop
  \/ PowReturn
  \/ PowDone
  \/ AddBlockDone
  \/ CallIsValid

ApiSpec == ApiInit /\ [][ApiNext]_vars

\* a call that has started keeps running: the loop takes its next turn, a
\* loop whose test fails returns, and add_block appends what it got back
FairApiSpec ==
  /\ ApiSpec
  /\ WF_vars(PowLoop)
  /\ WF_vars(PowReturn)
  /\ WF_vars(PowDone)
  /\ WF_vars(AddBlockDone)

\* the PyChain object used directly while the clock runs: the class Block is
\* defined once, when the module is loaded, and blocks are constructed later
ClockNext ==
  \/ ApiNext
  \/ Tick

ClockSpec == ApiInit /\ [][ClockNext]_vars

\* correctly linked appends, and fields overwritten by hand
TamperNext ==
  \/ SetDifficulty(SliderMin)
  \/ CallAddBlock([int |-> 10], 1, TRUE, 0)
  \/ PowLoop
  \/ PowReturn
  \/ AddBlockDone
  \/ CallIsValid
  \/ \E i \in 1..Len(chain), f \in Fields :
        \E v \in FieldValues(f) : Tamper(i, f, v)

TamperSpec == ApiInit /\ [][TamperNext]_vars

\* the nonce cap is out of reach of every search that can win
CapNotReached ==
  (pc = "pow" /\ Len(num_of_zeros) <= HashLen)
    => (block.nonce < MaxNonce \/ startswith(calculated_hash, num_of_zeros))

\* ------------------------------------------------------------- claims
\* C1: when proof_of_work returns, the live hash of the returned block
\* starts with as many '0' as the difficulty; and the block add_block appends
\* has, in the step that appends it, a hash that meets the difficulty of
\* that call.
C1_PowPostcondition ==
  /\ [](pc = "ret" => startswith(hash_block(block), Zeros(difficulty)))
  /\ [][Len(chain') = Len(chain) + 1
          => startswith(hash_block(Last(chain')), Zeros(difficulty))]_vars

C1_Witness ==
  /\ pc = "ret"
  /\ caller = "add_block"
  /\ difficulty = MaxDifficulty
  /\ block.nonce >= 1

\* C2: between runs the chain holds the genesis block and one block for each
\* add-block action; the chain changes only by growing by one block, whose
\* prev_hash is the live hash of the block that was the tail.
C2_MonotonicGrowth ==
  /\ [](pc \in {"first", "idle"} => Len(chain) = 1 + adds)
  /\ [][chain' # chain
          => /\ Len(chain') = Len(chain) + 1
             /\ Last(chain').prev_hash = hash_block(Last(chain))]_vars

C2_Witness ==
  /\ pc = "idle"
  /\ adds = 2
  /\ Len(chain) = 3
  /\ chain[2].nonce # chain[3].nonce

\* C3: a chain built by add-block actions and difficulty changes alone is
\* valid in every state, and is_valid() never returns false.
C3_ValidationSoundness == is_valid(chain) /\ valid_result # "False"

C3_Witness == valid_result = "True" /\ Len(chain) = 3

\* C4 as the specification states it: on a valid chain, overwriting one
\* field of a block that is not the last block with a different value leaves
\* a chain that is_valid() rejects.
C4_Original ==
  [][(/\ tampers' = tampers + 1
      /\ is_valid(chain)
      /\ \E i \in 1..(Len(chain) - 1) : chain'[i] # chain[i])
      => ~is_valid(chain')]_vars

\* C4: on a valid chain, overwriting one field of a block that is not the
\* last block leaves a chain that is_valid() rejects when the new value
\* changes the text that is hashed; an overwrite that leaves the hashed text
\* of every block as it was (creator_id 1 replaced by the str '1') leaves
\* the result of is_valid() as it was; is_valid() never returns true on a
\* chain that is not valid.
C4_ValidationCompleteness ==
  /\ [][(/\ tampers' = tampers + 1
          /\ is_valid(chain)
          /\ \E i \in 1..(Len(chain) - 1) :
                HashedText(chain'[i]) # HashedText(chain[i]))
          => ~is_valid(chain')]_vars
  /\ [][(/\ tampers' = tampers + 1
          /\ \A i \in 1..Len(chain) :
                HashedText(chain'[i]) = HashedText(chain[i]))
          => is_valid(chain') = is_valid(chain)]_vars
  /\ [](valid_result = "True" => is_valid(chain))

C4_Witness ==
  /\ tampers = 1
  /\ Len(chain) = 3
  /\ chain[2].creator_id = [str |-> Text(<<"1">>)]
  /\ valid_result = "True"

\* C5 as the specification states it: genesis and one block (A, B, 10,
\* creator 1) added at difficulty 1 is valid, and after that block's amount
\* is overwritten with 99 is_valid() is false.
C5_Original ==
  /\ (/\ tampers = 0
      /\ difficulty = 1
      /\ Len(chain) = 2
      /\ chain[2].record = Record(Text(<<"A">>), Text(<<"B">>), [int |-> 10])
      /\ chain[2].creator_id = [int |-> 1]
      /\ pc = "idle") => is_valid(chain)
  /\ (/\ tampers = 1
      /\ difficulty = 1
      /\ Len(chain) = 2
      /\ chain[2].record = Record(Text(<<"A">>), Text(<<"B">>), [int |-> 99])
      /\ chain[2].creator_id = [int |-> 1]
      /\ pc = "idle") => (~is_valid(chain) /\ valid_result # "True")

\* C5: in that scenario the chain is valid after the block is added, and it
\* is still valid after the block's amount is overwritten with 99: the block
\* is the last one, no prev_hash depends on it, and is_valid() returns true.
C5_TamperScenario ==
  /\ (/\ tampers = 0
      /\ difficulty = 1
      /\ Len(chain) = 2
      /\ chain[2].record = Record(Text(<<"A">>), Text(<<"B">>), [int |-> 10])
      /\ chain[2].creator_id = [int |-> 1]
      /\ pc = "idle") => (is_valid(chain) /\ valid_result # "False")
  /\ (/\ tampers = 1
      /\ difficulty = 1
      /\ Len(chain) = 2
      /\ chain[2].record = Record(Text(<<"A">>), Text(<<"B">>), [int |-> 99])
      /\ chain[2].creator_id = [int |-> 1]
      /\ pc = "idle") => (is_valid(chain) /\ valid_result # "False")

C5_Witness ==
  /\ tampers = 1
  /\ difficulty = 1
  /\ Len(chain) = 2
  /\ chain[2].record = Record(Text(<<"A">>), Text(<<"B">>), [int |-> 99])
  /\ chain[2].creator_id = [int |-> 1]
  /\ chain[2].prev_hash = hash_block(chain[1])
  /\ valid_result = "True"

\* C6: is_valid() is true exactly when every block after the genesis block
\* stores as prev_hash the hash computed now from its predecessor's fields;
\* when it is false the loop stopped at the first block that differs; a
\* chain of the genesis block alone is valid; a result returned for the
\* current chain agrees with this.
C6_IsValidCharacterization ==
  LET mismatches == {i \in 2..Len(chain) :
                       chain[i].prev_hash # hash_block(chain[i - 1])}
      run == is_valid_run(chain)
  IN  /\ run.result <=> mismatches = {}
      /\ run.result => run.compared = Len(chain) - 1
      /\ ~run.result =>
           \E i \in mismatches : /\ \A j \in mismatches : i <= j
                                  /\ run.compared = i - 1
      /\ Len(chain) = 1 => run.result
      /\ valid_result # "none" => valid_result = BoolStr(mismatches = {})

C6_Witness ==
  /\ Len(chain) = 3
  /\ chain[2].prev_hash # hash_block(chain[1])
  /\ chain[3].prev_hash # hash_block(chain[2])
  /\ valid_result = "False"

\* C7: the chain is never empty and its first block is the genesis block;
\* every step leaves the chain it found as a prefix of the chain it leaves.
C7_AppendOnly ==
  /\ [](/\ Len(chain) >= 1
        /\ chain[1] = Genesis(chain[1].timestamp))
  /\ [][/\ Len(chain') >= Len(chain)
        /\ SubSeq(chain', 1, Len(chain)) = chain]_vars

C7_Witness ==
  /\ Len(chain) = 3
  /\ pc = "ret"
  /\ caller = "direct"
  /\ block.nonce > chain[3].nonce

\* C8 as the specification states it: every call of add_block, whatever
\* integer the difficulty holds, eventually returns.
C8_Original == (pc = "pow" /\ caller = "add_block") ~> (pc = "idle")

\* C8: a call of add_block returns exactly when some nonce from the
\* candidate's on gives a hash with `difficulty' leading zeros, which is so
\* at once when difficulty <= 0 and never when difficulty exceeds the 64
\* characters of a digest: then the loop runs for ever and nothing is
\* appended. A call that returns leaves the chain one block longer, with the
\* mined candidate at its end.
C8_AddBlockTermination ==
  /\ (/\ pc = "pow"
      /\ caller = "add_block"
      /\ \E n \in block.nonce..MaxNonce :
            startswith(hash_block([block EXCEPT !.nonce = n]), num_of_zeros))
       ~> (pc = "idle")
  /\ [][(/\ pc = "pow"
          /\ \A n \in block.nonce..MaxNonce :
                ~startswith(hash_block([block EXCEPT !.nonce = n]),
                            num_of_zeros))
          => (pc' = "pow" /\ chain' = chain)]_vars
  /\ [](pc = "pow" =>
         /\ difficulty <= 0 => startswith(calculated_hash, num_of_zeros)
         /\ difficulty > HashLen => ~startswith(calculated_hash, num_of_zeros))
  /\ [][(caller = "add_block" /\ pc' = "idle")
          => (pc = "ret" /\ chain' = Append(chain, block))]_vars

C8_Witness ==
  /\ pc = "pow"
  /\ caller = "add_block"
  /\ difficulty > HashLen
  /\ block.nonce = MaxNonce
  /\ turns = 1

\* C9: while proof_of_work runs, each step leaves the block's record,
\* creator_id, timestamp and prev_hash, the chain and the difficulty as they
\* were and never lowers the nonce; the block handed back is the block of
\* the last turn of the loop.
C9_PowFrame ==
  [][pc = "pow" =>
       /\ block'.record = block.record
       /\ block'.creator_id = block.creator_id
       /\ block'.timestamp = block.timestamp
       /\ block'.prev_hash = block.prev_hash
       /\ block'.nonce >= block.nonce
       /\ pc' = "ret" => block' = block
       /\ chain' = chain
       /\ difficulty' = difficulty]_vars

C9_Witness ==
  /\ pc = "ret"
  /\ caller = "direct"
  /\ block.nonce >= 2
  /\ Len(chain) >= 2

\* C10: a step in which is_valid() returns a result changes neither the
\* chain nor the difficulty, and a result once returned is the result a
\* second call would return.
C10_IsValidReadOnly ==
  /\ [][valid_result' # "none" =>
          (chain' = chain /\ difficulty' = difficulty)]_vars
  /\ [](valid_result # "none" => valid_result = BoolStr(is_valid(chain)))

C10_Witness ==
  /\ valid_result = "False"
  /\ tampers = 1
  /\ Len(chain) = 2

\* C11: a step that changes the difficulty changes neither the chain nor
\* the validity of the chain nor anything of a proof_of_work call; a call of
\* proof_of_work that starts uses the difficulty of that moment, and keeps
\* it until it returns.
C11_DifficultyFrame ==
  /\ [][difficulty' # difficulty =>
          /\ chain' = chain
          /\ is_valid(chain') = is_valid(chain)
          /\ block' = block
          /\ calculated_hash' = calculated_hash
          /\ num_of_zeros' = num_of_zeros
          /\ pc' = pc]_vars
  /\ [][(pc = "idle" /\ pc' = "pow") => num_of_zeros' = Zeros(difficulty)]_vars
  /\ [](pc \in {"pow", "ret"} => num_of_zeros = Zeros(difficulty))

C11_Witness ==
  /\ difficulty = MaxDifficulty
  /\ Len(chain) = 2
  /\ ~startswith(hash_block(chain[2]), Zeros(difficulty))
  /\ pc = "pow"
  /\ num_of_zeros = Zeros(MaxDifficulty)
  /\ block.nonce >= 1

\* C12 as the specification states it: a Block constructed without an
\* explicit timestamp carries the clock reading of the moment it is
\* constructed (the candidate of a call is constructed when the call starts).
C12_Original ==
  [][(pc = "idle" /\ pc' = "pow") => block'.timestamp = strftime(now)]_vars

\* C13: the difficulty may be set to 0 (and below); a proof_of_work that
\* starts with difficulty 0 computes one hash, of the block as it was given,
\* tests it against the empty prefix and returns at its next step without a
\* turn of the loop, the block and its nonce untouched; add_block then
\* appends that block.
C13_DifficultyZero ==
  /\ [][(pc = "idle" /\ pc' = "pow" /\ difficulty = 0) =>
          /\ num_of_zeros' = <<>>
          /\ calculated_hash' = hash_block(block')]_vars
  /\ [][(pc = "pow" /\ difficulty = 0) =>
          /\ pc' = "ret"
          /\ block' = block
          /\ calculated_hash' = calculated_hash]_vars
  /\ [][(pc = "ret" /\ difficulty = 0 /\ caller = "add_block") =>
          chain' = Append(chain, block)]_vars
  /\ [](pc \in {"pow", "ret"} /\ difficulty = 0 /\ caller = "add_block"
         => block.nonce = 0)

C13_Witness ==
  /\ pc = "ret"
  /\ caller = "add_block"
  /\ difficulty = 0
  /\ block.nonce = 0
  /\ ~startswith(hash_block(block), Zeros(1))

\* C14 as the specification states it: changing exactly one field of a
\* block to a different value changes the text that is hashed and the digest.
C14_Original ==
  [][tampers' = tampers + 1 =>
       \A i \in 1..Len(chain) :
         chain'[i] # chain[i] =>
           /\ HashedText(chain'[i]) # HashedText(chain[i])
           /\ hash_block(chain'[i]) # hash_block(chain[i])]_vars

\* C14: a digest computed earlier is the digest computed now while the
\* block is unchanged; changing one field changes the digest exactly when it
\* changes the hashed text (record, creator_id, timestamp, prev_hash, nonce
\* in this order), and the changes of value that leave the text as it was
\* are those to a value with the same str(): creator_id 1 replaced by the
\* str '1'.
C14_HashSensitivity ==
  /\ [](pc \in {"pow", "ret"} => calculated_hash = hash_block(block))
  /\ [][tampers' = tampers + 1 =>
          \A i \in 1..Len(chain) :
            /\ (HashedText(chain'[i]) # HashedText(chain[i]))
                 <=> (hash_block(chain'[i]) # hash_block(chain[i]))
            /\ (chain'[i] # chain[i]
                 /\ HashedText(chain'[i]) = HashedText(chain[i]))
                 => /\ chain'[i].creator_id # chain[i].creator_id
                    /\ Str(chain'[i].creator_id) = Str(chain[i].creator_id)
            /\ (chain'[i] # chain[i]
                 /\ Str(chain'[i].creator_id) # Str(chain[i].creator_id))
                 => HashedText(chain'[i]) # HashedText(chain[i])]_vars

C14_Witness ==
  /\ tampers = 1
  /\ Len(chain) = 2
  /\ chain[2].creator_id = [str |-> Text(<<"1">>)]
  /\ hash_block(chain[2])
       = hash_block([chain[2] EXCEPT !.creator_id = [int |-> 1]])

\* C15: when add_block ends for a candidate whose prev_hash is not the live
\* hash of the tail, the mined candidate is appended all the same and the
\* chain is not valid; a chain that is not valid stays so whatever is
\* appended later, and is_valid() does not return true on it.
C15_UnlinkedCandidate ==
  /\ [][(/\ caller = "add_block"
          /\ pc = "ret"
          /\ pc' = "idle"
          /\ block.prev_hash # hash_block(Last(chain)))
          => /\ chain' = Append(chain, block)
             /\ startswith(hash_block(Last(chain')), Zeros(difficulty))
             /\ ~is_valid(chain')]_vars
  /\ [][~is_valid(chain) => ~is_valid(chain')]_vars
  /\ [](~is_valid(chain) => valid_result # "True")

C15_Witness ==
  /\ Len(chain) = 3
  /\ chain[2].prev_hash # hash_block(chain[1])
  /\ chain[3].prev_hash = hash_block(chain[2])
  /\ valid_result = "False"

\* C16: proof_of_work called on a block with nonce nonce0 returns it with
\* the least nonce from nonce0 on whose hash starts with `difficulty` zeros:
\* all through the call the nonce is at least nonce0 and every nonce from
\* nonce0 up to the one before the current fails the prefix test, the nonce
\* returned passes it, a turn of the loop raises the nonce by exactly 1 and
\* changes no other field.
C16_LeastNonce ==
  /\ [](pc \in {"pow", "ret"} =>
         /\ num_of_zeros = Zeros(difficulty)
         /\ block.nonce >= nonce0
         /\ \A m \in nonce0..(block.nonce - 1) :
              ~startswith(hash_block([block EXCEPT !.nonce = m]),
                          Zeros(difficulty)))
  /\ [](pc = "ret" => startswith(hash_block(block), Zeros(difficulty)))
  /\ [][(pc = "pow" /\ pc' = "pow" /\ block' # block)
          => block' = [block EXCEPT !.nonce = @ + 1]]_vars
  /\ [][(pc = "pow" /\ pc' = "ret") => block' = block]_vars

C16_Witness ==
  /\ pc = "ret"
  /\ caller = "direct"
  /\ difficulty >= 1
  /\ nonce0 = 1
  /\ block.nonce >= nonce0 + 2
  /\ startswith(hash_block(block), Zeros(difficulty))
  /\ ~startswith(hash_block([block EXCEPT !.nonce = nonce0]), Zeros(difficulty))

\* C17: on a valid chain, overwriting a field other than prev_hash of the
\* last block leaves a chain that is_valid() accepts; a block that is
\* appended carries the live hash of the tail it found, altered or not, and
\* every step other than an overwrite keeps a valid chain valid, so the
\* chain is accepted after the next append as well and is_valid() does not
\* return false on it.
C17_TailTamperAbsorbed ==
  /\ [][(/\ tampers' = tampers + 1
          /\ is_valid(chain)
          /\ chain'[Len(chain)] # chain[Len(chain)]
          /\ chain'[Len(chain)].prev_hash = chain[Len(chain)].prev_hash)
          => is_valid(chain')]_vars
  /\ [][Len(chain') = Len(chain) + 1
          => /\ \A i \in 1..Len(chain) : chain'[i] = chain[i]
             /\ chain'[Len(chain')].prev_hash = hash_block(Last(chain))]_vars
  /\ [][(tampers' = tampers /\ is_valid(chain)) => is_valid(chain')]_vars
  /\ [](is_valid(chain) => valid_result # "False")

C17_Witness ==
  /\ tampers = 1
  /\ Len(chain) = 3
  /\ chain[2].record = Record(Text(<<"A">>), Text(<<"B">>), [int |-> 99])
  /\ chain[3].prev_hash = hash_block(chain[2])
  /\ chain[3].prev_hash
       # hash_block([chain[2] EXCEPT
                       !.record = Record(Text(<<"A">>), Text(<<"B">>),
                                         [int |-> 10])])
  /\ valid_result = "True"

\* C18: is_valid() is true exactly when every block after the first carries
\* the live hash of its predecessor as prev_hash; its result is the same
\* before and after every step that leaves the chain as it is, a change of
\* the difficulty included, and it is true of a linked chain whose genesis
\* block was never mined and whose blocks do not meet the difficulty in
\* force.
C18_LinkageOnly ==
  /\ [](is_valid(chain) <=>
          \A i \in 2..Len(chain) : chain[i].prev_hash = hash_block(chain[i - 1]))
  /\ [][chain' = chain => is_valid(chain') = is_valid(chain)]_vars
  /\ [](valid_result # "none" => valid_result = BoolStr(is_valid(chain)))
  /\ [](chain[1].nonce = 0)

C18_Witness ==
  /\ valid_result = "True"
  /\ Len(chain) = 3
  /\ difficulty = MaxDifficulty
  /\ chain[1].nonce = 0
  /\ ~startswith(hash_block(chain[1]), Zeros(1))
  /\ \E i \in 2..Len(chain) :
       ~startswith(hash_block(chain[i]), Zeros(difficulty))

====
